---- MODULE Spec2Model ----
(***************************************************************************)
(* Model of the comfyui-djb-utils nodes:                                   *)
(*   image_filename_extractor.py  ReliableFilenameExtractor,               *)
(*                                FilenameFromLoadImageDirect,             *)
(*                                ImprovedImageFilenameExtractor           *)
(*   resolution_detector.py       ResolutionDetectorFromFilename,          *)
(*                                WAN21ModelTracker and the interception   *)
(*                                of comfy.utils.load_torch_file           *)
(*                                                                         *)
(* A Python str is a sequence of one-character strings.  A Python value    *)
(* whose type matters to the code is a record [t |-> tag, v |-> payload].  *)
(* Paths follow posixpath (the separator is "/").                          *)
(***************************************************************************)
EXTENDS Integers, Sequences, FiniteSets, TLC

VARIABLES
    image_name,     \* argument of extract_filename / get_filename
    image,          \* the IMAGE object handed to the nodes
    rfe_out,        \* last return of ReliableFilenameExtractor.extract_filename(image_name, image)
    rfe_again,      \* last return of extract_filename(rfe_out.full_filename, image)
    direct_out,     \* last return of FilenameFromLoadImageDirect.get_filename(image_name)
    improved_out,   \* last return of ImprovedImageFilenameExtractor.extract_filename(image)
    model_filename, \* argument of ResolutionDetectorFromFilename.detect_resolution
    detect_out,     \* its last return
    host,           \* what the host offers when resolution_detector is imported
    module_state,   \* the import of resolution_detector: "unloaded", "loaded" or "import_failed"
    patched,        \* comfy.utils.load_torch_file is tracked_load_torch_file
    loaded_models,  \* WAN21ModelTracker._loaded_models, in insertion order
    last_call,      \* the last call of comfy.utils.load_torch_file, as its caller saw it
    tracker_call    \* the last call of WAN21ModelTracker.detect_resolution

vars == <<image_name, image, rfe_out, rfe_again, direct_out, improved_out,
          model_filename, detect_out, host, module_state, patched,
          loaded_models, last_call, tracker_call>>

normVars == <<image_name, image, rfe_out, rfe_again, direct_out, improved_out>>
resVars == <<model_filename, detect_out>>
trackVars == <<host, module_state, patched, loaded_models, last_call, tracker_call>>

-----------------------------------------------------------------------------
(* Bounds of the model.                                                    *)

\* an input name is the concatenation of at most MaxTokens tokens
MaxTokens == 3
\* a model filename is the concatenation of at most MaxResTokens tokens
MaxResTokens == 3
\* at most MaxLoads entries are tracked in _loaded_models
MaxLoads == 3

-----------------------------------------------------------------------------
(* Python values.                                                          *)

PyNone == [t |-> "none", v |-> <<>>]
Absent == [t |-> "absent", v |-> <<>>]
Str(s) == [t |-> "str", v |-> s]
List(xs) == [t |-> "list", v |-> xs]
\* a dict, of which only the entry under the key 'filename' is modelled:
\* v is <<>> without the key and <<value>> with it
Dict(entry) == [t |-> "dict", v |-> entry]

\* bool(x)
Truthy(x) ==
    CASE x.t = "none" -> FALSE
      [] x.t = "absent" -> FALSE
      [] x.t = "str" -> x.v # <<>>
      [] x.t = "list" -> x.v # <<>>
      [] x.t = "dict" -> x.v # <<>>
      [] OTHER -> TRUE

\* str(x) of a str or of None
PyStr(x) ==
    IF x.t = "none" THEN <<"N", "o", "n", "e">> ELSE x.v

-----------------------------------------------------------------------------
(* The str and os.path functions the nodes call.                           *)

Whitespace == {" ", "\t", "\n", "\r"}

RECURSIVE LStrip(_)
LStrip(s) ==
    IF s # <<>> /\ Head(s) \in Whitespace THEN LStrip(Tail(s)) ELSE s

RECURSIVE RStrip(_)
RStrip(s) ==
    IF s # <<>> /\ s[Len(s)] \in Whitespace
    THEN RStrip(SubSeq(s, 1, Len(s) - 1))
    ELSE s

\* str.strip()
Strip(s) == RStrip(LStrip(s))

\* s[i-1:].startswith(sub), i counted from 1
StartsAt(s, i, sub) ==
    /\ i + Len(sub) - 1 <= Len(s)
    /\ SubSeq(s, i, i + Len(sub) - 1) = sub

\* str.endswith(suf)
EndsWith(s, suf) ==
    /\ Len(suf) <= Len(s)
    /\ SubSeq(s, Len(s) - Len(suf) + 1, Len(s)) = suf

\* sub in s
Contains(s, sub) ==
    \E i \in 1..(Len(s) + 1) : StartsAt(s, i, sub)

\* a plausible slip: only the first occurrence is removed (str.replace(old, "", 1))
RECURSIVE ReplaceFirstOnly(_, _)
ReplaceFirstOnly(s, old) ==
    IF s = <<>> THEN <<>>
    ELSE IF StartsAt(s, 1, old)
         THEN SubSeq(s, Len(old) + 1, Len(s))
         ELSE <<Head(s)>> \o ReplaceFirstOnly(Tail(s), old)

\* str.replace(old, ""), old not empty: scans left to right and drops every
\* occurrence it meets, resuming after the occurrence
RECURSIVE Replace(_, _)
Replace(s, old) ==
    IF s = <<>> THEN <<>>
    ELSE IF StartsAt(s, 1, old)
         THEN Replace(SubSeq(s, Len(old) + 1, Len(s)), old)
         ELSE <<Head(s)>> \o Replace(Tail(s), old)

\* str.rfind(c) + 1 for a one-character c: the last position of c, 0 when absent
RFind(s, c) ==
    IF \E i \in 1..Len(s) : s[i] = c
    THEN CHOOSE i \in 1..Len(s) : s[i] = c /\ \A j \in (i + 1)..Len(s) : s[j] # c
    ELSE 0

\* posixpath.basename
Basename(p) == SubSeq(p, RFind(p, "/") + 1, Len(p))

\* posixpath.splitext (genericpath._splitext): the extension starts at the last
\* dot of the last path segment, unless only dots precede it in that segment
Splitext(p) ==
    LET sepIndex == RFind(p, "/")
        dotIndex == RFind(p, ".")
    IN  IF /\ dotIndex > sepIndex
           /\ \E k \in (sepIndex + 1)..(dotIndex - 1) : p[k] # "."
        THEN <<SubSeq(p, 1, dotIndex - 1), SubSeq(p, dotIndex, Len(p))>>
        ELSE <<p, <<>>>>

-----------------------------------------------------------------------------
(* image_filename_extractor.py                                             *)

Marker == <<"-", "s", "w", "a", "p", "p", "e", "d", ".", "p", "n", "g">>

ImageExts ==
    { <<".", "p", "n", "g">>, <<".", "j", "p", "g">>, <<".", "j", "p", "e", "g">>,
      <<".", "g", "i", "f">>, <<".", "b", "m", "p">>, <<".", "t", "i", "f", "f">>,
      <<".", "w", "e", "b", "p">> }

DotPng == <<".", "p", "n", "g">>

\* a plausible slip: ".png" is re-added whatever the name ends with
RFE_HandleSwappedAlwaysPng(clean_filename) ==
    IF EndsWith(clean_filename, Marker)
    THEN SubSeq(clean_filename, 1, Len(clean_filename) - Len(Marker)) \o DotPng
    ELSE IF Contains(clean_filename, Marker)
         THEN Replace(clean_filename, Marker)
         ELSE clean_filename

\* ReliableFilenameExtractor.extract_filename, lines 42-48
RFE_HandleSwapped(clean_filename) ==
    IF EndsWith(clean_filename, Marker)
    THEN LET cut == SubSeq(clean_filename, 1, Len(clean_filename) - Len(Marker))
         IN  IF ~ \E ext \in ImageExts : EndsWith(cut, ext)
             THEN cut \o DotPng
             ELSE cut
    ELSE IF Contains(clean_filename, Marker)
         THEN Replace(clean_filename, Marker)
         ELSE clean_filename

\* ReliableFilenameExtractor.extract_filename(image_name, image):
\* the returned tuple (full_filename, name_only, extension, image_passthrough)
RFE_extract_filename(name, img) ==
    IF ~Truthy(name) \/ Strip(name.v) = <<>>
    THEN << <<>>, <<>>, <<>>, img >>
    ELSE LET clean_filename == RFE_HandleSwapped(Basename(Strip(name.v)))
         IN  << clean_filename, Splitext(clean_filename)[1],
                Splitext(clean_filename)[2], img >>

\* FilenameFromLoadImageDirect.get_filename, lines 91-97
Direct_HandleSwapped(clean_filename) ==
    IF EndsWith(clean_filename, Marker)
    THEN LET cut == SubSeq(clean_filename, 1, Len(clean_filename) - Len(Marker))
         IN  IF ~ \E ext \in ImageExts : EndsWith(cut, ext)
             THEN cut \o DotPng
             ELSE cut
    ELSE IF Contains(clean_filename, Marker)
         THEN Replace(clean_filename, Marker)
         ELSE clean_filename

\* FilenameFromLoadImageDirect.get_filename(image_file):
\* the returned tuple (full_filename, name_only, extension)
Direct_get_filename(image_file) ==
    IF ~Truthy(image_file)
    THEN << <<>>, <<>>, <<>> >>
    ELSE LET clean_filename == Direct_HandleSwapped(image_file.v)
         IN  << clean_filename, Splitext(clean_filename)[1],
                Splitext(clean_filename)[2] >>

NoFilenameFound ==
    <<"n", "o", "_", "f", "i", "l", "e", "n", "a", "m", "e", "_", "f", "o", "u", "n", "d">>

\* the strings the cleanup treats as no filename, line 182
NotAFilename == { <<>>, <<"N", "o", "n", "e">>, <<"n", "o", "n", "e">> }

\* hasattr(obj, attr), obj given as the attribute's value
HasAttr(value) == value.t # "absent"

\* a plausible slip: Method 2 runs even when Method 1 found a filename
Improved_DiscoverNamesOverride(img) ==
    LET m1 == IF HasAttr(img.filename) /\ Truthy(img.filename)
              THEN PyStr(img.filename) ELSE <<>>
        try2 == HasAttr(img.names) /\ Truthy(img.names)
        m2 == IF try2
              THEN IF img.names.t = "list"
                   THEN PyStr(img.names.v[1])
                   ELSE PyStr(img.names)
              ELSE m1
        try3 == m2 = <<>> /\ HasAttr(img.metadata) /\ img.metadata.t = "dict"
        m3 == IF try3 /\ img.metadata.v # <<>>
              THEN PyStr(img.metadata.v[1])
              ELSE m2
    IN  << m3,
           << IF m1 # <<>> THEN "SUCCESS" ELSE "FAILED",
              IF try2 THEN "SUCCESS" ELSE "FAILED or not available",
              IF try3
              THEN IF img.metadata.v # <<>> THEN "SUCCESS" ELSE "No filename key"
              ELSE "FAILED or not available" >>
           \o (IF m3 = <<>> THEN <<"checked">> ELSE <<>>) >>

\* ImprovedImageFilenameExtractor.extract_filename, lines 130-179: the filename
\* the four methods leave, and methods_tried.  Method 4 only reads image.meta
\* into the debug text.
Improved_Discover(img) ==
    LET m1 == IF HasAttr(img.filename) /\ Truthy(img.filename)
              THEN PyStr(img.filename) ELSE <<>>
        try2 == m1 = <<>> /\ HasAttr(img.names) /\ Truthy(img.names)
        m2 == IF try2
              THEN IF img.names.t = "list"
                   THEN PyStr(img.names.v[1])
                   ELSE PyStr(img.names)
              ELSE m1
        try3 == m2 = <<>> /\ HasAttr(img.metadata) /\ img.metadata.t = "dict"
        m3 == IF try3 /\ img.metadata.v # <<>>
              THEN PyStr(img.metadata.v[1])
              ELSE m2
    IN  << m3,
           << IF m1 # <<>> THEN "SUCCESS" ELSE "FAILED",
              IF try2 THEN "SUCCESS" ELSE "FAILED or not available",
              IF try3
              THEN IF img.metadata.v # <<>> THEN "SUCCESS" ELSE "No filename key"
              ELSE "FAILED or not available" >>
           \o (IF m3 = <<>> THEN <<"checked">> ELSE <<>>) >>

\* ImprovedImageFilenameExtractor.extract_filename, lines 186-191
Improved_HandleSwapped(filename) ==
    IF EndsWith(filename, Marker)
    THEN LET cut == SubSeq(filename, 1, Len(filename) - Len(Marker))
         IN  IF ~ \E ext \in ImageExts : EndsWith(cut, ext)
             THEN cut \o DotPng
             ELSE cut
    ELSE IF Contains(filename, Marker)
         THEN Replace(filename, Marker)
         ELSE filename

\* ImprovedImageFilenameExtractor.extract_filename(image): the returned tuple
\* (filename, debug_info), debug_info reduced to methods_tried
Improved_extract_filename(img) ==
    LET found == Improved_Discover(img)
        filename == found[1]
    IN  << IF filename # <<>> /\ filename \notin NotAFilename
           THEN Improved_HandleSwapped(Basename(filename))
           ELSE NoFilenameFound,
           found[2] >>

-----------------------------------------------------------------------------
(* resolution_detector.py                                                  *)

UpperCase ==
    <<"A", "B", "C", "D", "E", "F", "G", "H", "I", "J", "K", "L", "M",
      "N", "O", "P", "Q", "R", "S", "T", "U", "V", "W", "X", "Y", "Z">>

LowerCase ==
    <<"a", "b", "c", "d", "e", "f", "g", "h", "i", "j", "k", "l", "m",
      "n", "o", "p", "q", "r", "s", "t", "u", "v", "w", "x", "y", "z">>

LowerChar(c) ==
    IF \E i \in 1..Len(UpperCase) : UpperCase[i] = c
    THEN LowerCase[CHOOSE i \in 1..Len(UpperCase) : UpperCase[i] = c]
    ELSE c

\* str.lower()
RECURSIVE Lower(_)
Lower(s) ==
    IF s = <<>> THEN <<>> ELSE <<LowerChar(Head(s))>> \o Lower(Tail(s))

\* the alternatives of the pattern (480p|720p), in the pattern's order
ResolutionPattern == << <<"4", "8", "0", "p">>, <<"7", "2", "0", "p">> >>

\* the pattern alternative alt matches at position i, ignoring case
MatchAt(s, i, alt) ==
    /\ i + Len(alt) - 1 <= Len(s)
    /\ Lower(SubSeq(s, i, i + Len(alt) - 1)) = alt

\* a plausible slip: the whole name is searched for 480p before 720p
RECURSIVE ReSearchFromOne(_, _, _)
ReSearchFromOne(s, i, alt) ==
    IF i > Len(s) THEN <<>>
    ELSE IF MatchAt(s, i, alt)
         THEN SubSeq(s, i, i + Len(alt) - 1)
         ELSE ReSearchFromOne(s, i + 1, alt)

ReSearchFrom480First(s, i) ==
    IF ReSearchFromOne(s, i, ResolutionPattern[1]) # <<>>
    THEN ReSearchFromOne(s, i, ResolutionPattern[1])
    ELSE ReSearchFromOne(s, i, ResolutionPattern[2])

\* re.search(r'(480p|720p)', s, re.IGNORECASE) from position i on: at each
\* position in turn the alternatives are tried in order; the text of group 1,
\* or <<>> for no match
RECURSIVE ReSearchFrom(_, _)
ReSearchFrom(s, i) ==
    IF i > Len(s) THEN <<>>
    ELSE IF MatchAt(s, i, ResolutionPattern[1])
         THEN SubSeq(s, i, i + Len(ResolutionPattern[1]) - 1)
         ELSE IF MatchAt(s, i, ResolutionPattern[2])
              THEN SubSeq(s, i, i + Len(ResolutionPattern[2]) - 1)
              ELSE ReSearchFrom(s, i + 1)

ReSearch(s) == ReSearchFrom(s, 1)

NoModelsFound ==
    <<"N", "o", " ", "m", "o", "d", "e", "l", "s", " ", "f", "o", "u", "n", "d">>

\* ResolutionDetectorFromFilename.detect_resolution(model_filename): the
\* returned 1-tuple
Res_detect_resolution(filename) ==
    IF Truthy(filename) /\ filename.v # NoModelsFound /\ ReSearch(filename.v) # <<>>
    THEN << Lower(ReSearch(filename.v)) >>
    ELSE << <<>> >>

ModelExts ==
    { <<".", "s", "a", "f", "e", "t", "e", "n", "s", "o", "r", "s">>,
      <<".", "c", "k", "p", "t">>, <<".", "p", "t">>, <<".", "p", "t", "h">> }

\* a key of _loaded_models: "recent_<n>", or str(id(model)) with an empty prefix
RecentKey(n) == [prefix |-> "recent_", n |-> n]
IdKey(n) == [prefix |-> "", n |-> n]

\* key in d
HasKey(d, key) == \E i \in 1..Len(d) : d[i][1] = key

\* d[key]
Lookup(d, key) == d[CHOOSE i \in 1..Len(d) : d[i][1] = key][2]

\* d[key] = value: a dict keeps insertion order, and a key already there keeps
\* its place
DictSet(d, key, value) ==
    IF HasKey(d, key)
    THEN [i \in 1..Len(d) |-> IF d[i][1] = key THEN <<key, value>> ELSE d[i]]
    ELSE Append(d, <<key, value>>)

\* the path looks like a model file, line 134
LooksLikeModel(path) ==
    /\ path.t = "str"
    /\ \E ext \in ModelExts : Contains(Lower(path.v), ext)

\* a plausible slip: one fixed key, so that each load overwrites the last
TrackSingleSlot(d, path) ==
    DictSet(d, RecentKey(0), Basename(path.v))

\* tracked_load_torch_file, lines 135-137
Track(d, path) ==
    DictSet(d, RecentKey(Len(d)), Basename(path.v))

\* a plausible slip: the load is tracked before the original loader is called
TrackedBeforeLoading(d, path, original) ==
    << IF LooksLikeModel(path) THEN Track(d, path) ELSE d, original >>

\* tracked_load_torch_file(path): the pair of _loaded_models afterwards and of
\* what the caller sees, given what original_load_torch_file(path) does
\* (original.kind is "return" or "raise")
tracked_load_torch_file(d, path, original) ==
    IF original.kind = "raise"
    THEN << d, original >>
    ELSE << IF LooksLikeModel(path) THEN Track(d, path) ELSE d,
            [kind |-> "return", value |-> original.value] >>

\* the first public str attribute with a resolution in it, lines 93-105, or
\* <<>>; attrs are the values of the public attributes in dir() order
RECURSIVE AttrScan(_)
AttrScan(attrs) ==
    IF attrs = <<>> THEN <<>>
    ELSE IF /\ Head(attrs).t = "str"
            /\ Truthy(Head(attrs))
            /\ ReSearch(Head(attrs).v) # <<>>
         THEN Lower(ReSearch(Head(attrs).v))
         ELSE AttrScan(Tail(attrs))

\* the values under the keys starting with 'recent_', line 78
RecentFiles(d) ==
    LET RECURSIVE pick(_)
        pick(rest) ==
            IF rest = <<>> THEN <<>>
            ELSE IF Head(rest)[1].prefix = "recent_"
                 THEN <<Head(rest)[2]>> \o pick(Tail(rest))
                 ELSE pick(Tail(rest))
    IN  pick(d)

\* WAN21ModelTracker.detect_resolution(model): the returned 1-tuple
Tracker_detect_resolution(d, model) ==
    LET model_id == IdKey(model.id)
        recent_files == RecentFiles(d)
    IN  IF HasKey(d, model_id) /\ ReSearch(Lookup(d, model_id)) # <<>>
        THEN << Lower(ReSearch(Lookup(d, model_id))) >>
        ELSE IF /\ recent_files # <<>>
                /\ ReSearch(recent_files[Len(recent_files)]) # <<>>
             THEN << Lower(ReSearch(recent_files[Len(recent_files)])) >>
             ELSE << AttrScan(model.attrs) >>

\* the import of resolution_detector, lines 119-155: how it ends and whether
\* comfy.utils.load_torch_file is patched.  `import comfy.model_management`
\* raises ImportError on the host "no_comfy" and another Exception on the host
\* "model_management_error"; `except Exception` swallows both before line 142
\* is reached.  On "no_load_torch_file" hasattr is false and nothing is raised.
ImportModule(h) ==
    [state |-> "loaded", patched |-> h = "full"]

-----------------------------------------------------------------------------
(* Inputs.                                                                 *)

NormTokens ==
    { <<"a">>, <<".">>, <<"/">>, <<" ">>, Marker,
      <<"-", "s", "w", "a", "p">>, <<"p", "e", "d", ".", "p", "n", "g">>,
      <<".", "j", "p", "g">> }

RECURSIVE Concats(_, _)
Concats(tokens, n) ==
    IF n = 0 THEN { <<>> }
    ELSE LET shorter == Concats(tokens, n - 1)
         IN  shorter \cup { p \o t : p \in shorter, t \in tokens }

PhotoSwapped ==
    <<"p", "h", "o", "t", "o", "-", "s", "w", "a", "p", "p", "e", "d", ".", "p", "n", "g">>
PathSwapped ==
    <<"a", "/", "b", "/", "c", "-", "s", "w", "a", "p", "p", "e", "d", ".", "p", "n", "g">>
PhotoSwappedJpg ==
    <<"p", "h", "o", "t", "o", "-", "s", "w", "a", "p", "p", "e", "d", ".", "p", "n", "g",
      ".", "j", "p", "g">>

NormStrings ==
    Concats(NormTokens, MaxTokens) \cup { PhotoSwapped, PathSwapped, PhotoSwappedJpg }

NormInputs == { PyNone } \cup { Str(s) : s \in NormStrings }

\* the object whose only attribute is filename
ImageNamed(name) == [filename |-> name, names |-> Absent, metadata |-> Absent]

ResTokens ==
    { <<"4", "8", "0", "p">>, <<"7", "2", "0", "P">>, <<"4", "8">>, <<"0", "P">>,
      <<"7">>, <<"2", "0", "p">>, <<"x">>, <<"p">> }

ResInputs ==
    { PyNone, Str(NoModelsFound) }
        \cup { Str(s) : s \in Concats(ResTokens, MaxResTokens) }

FilenameAttrs ==
    { Absent, PyNone, Str(<<>>), Str(<<"N", "o", "n", "e">>),
      Str(<<"d", "/", "b", "-", "s", "w", "a", "p", "p", "e", "d", ".", "p", "n", "g">>) }

NamesAttrs ==
    { Absent, List(<<>>), List(<<Str(<<>>), Str(<<"x">>)>>), List(<<PyNone>>),
      List(<<Str(<<"n", ".", "p", "n", "g">>), Str(<<"x">>)>>),
      Str(<<"s", ".", "p", "n", "g">>) }

MetadataAttrs ==
    { Absent, Str(<<"x">>), Dict(<<>>), Dict(<<PyNone>>), Dict(<<Str(<<>>)>>),
      Dict(<<Str(<<"m", ".", "j", "p", "g">>)>>) }

Images ==
    { [filename |-> f, names |-> n, metadata |-> m] :
        f \in FilenameAttrs, n \in NamesAttrs, m \in MetadataAttrs }

Hosts == { "full", "no_comfy", "model_management_error", "no_load_torch_file" }

\* the hosts on which comfy.utils.load_torch_file exists and is called
HostsWithLoader == { "full", "model_management_error" }

Paths ==
    { Str(<<"m", "/", "w", "4", "8", "0", "p", ".", "s", "a", "f", "e", "t", "e", "n",
            "s", "o", "r", "s">>),
      Str(<<"B", "_", "7", "2", "0", "P", ".", "C", "K", "P", "T">>),
      Str(<<"p", "l", "a", "i", "n", ".", "p", "t">>),
      Str(<<"n", "o", "t", "e", "s", ".", "t", "x", "t">>),
      Str(<<"c", ".", "p", "t", "h", "/", "r">>),
      [t |-> "pathlike", v |-> <<"x", "7", "2", "0", "p", ".", "c", "k", "p", "t">>] }

\* what original_load_torch_file does with a call
Originals ==
    { [kind |-> "return", value |-> "state_dict"],
      [kind |-> "raise", value |-> "error"] }

Models ==
    { [id |-> 1, attrs |-> <<>>],
      [id |-> 2, attrs |-> <<PyNone, Str(<<"x">>), Str(<<"k", "4", "8", "0", "P">>),
                             Str(<<"w", "_", "7", "2", "0", "p">>)>>] }

NoCall == [path |-> PyNone, original |-> [kind |-> "none", value |-> "none"],
           seen |-> [kind |-> "none", value |-> "none"], before |-> <<>>,
           tracked |-> FALSE]

NoTrackerCall == [model |-> [id |-> 0, attrs |-> <<>>], cache |-> <<>>, out |-> <<>>]

-----------------------------------------------------------------------------
(* Operations.                                                             *)

\* ReliableFilenameExtractor.extract_filename(image_name, image)
ExtractFilename ==
    /\ rfe_out' = RFE_extract_filename(image_name, image)
    /\ UNCHANGED <<image_name, image, rfe_again, direct_out, improved_out>>
    /\ UNCHANGED <<resVars, trackVars>>

\* ReliableFilenameExtractor.extract_filename fed the full filename it returned
ExtractAgain ==
    /\ rfe_out # <<>>
    /\ rfe_again' = RFE_extract_filename(Str(rfe_out[1]), image)
    /\ UNCHANGED <<image_name, image, rfe_out, direct_out, improved_out>>
    /\ UNCHANGED <<resVars, trackVars>>

\* FilenameFromLoadImageDirect.get_filename(image_name)
GetFilename ==
    /\ direct_out' = Direct_get_filename(image_name)
    /\ UNCHANGED <<image_name, image, rfe_out, rfe_again, improved_out>>
    /\ UNCHANGED <<resVars, trackVars>>

\* ImprovedImageFilenameExtractor.extract_filename(image)
ImprovedExtract ==
    /\ improved_out' = Improved_extract_filename(image)
    /\ UNCHANGED <<image_name, image, rfe_out, rfe_again, direct_out>>
    /\ UNCHANGED <<resVars, trackVars>>

\* ResolutionDetectorFromFilename.detect_resolution(model_filename)
DetectResolution ==
    /\ detect_out' = Res_detect_resolution(model_filename)
    /\ UNCHANGED <<model_filename, normVars, trackVars>>

\* the import of resolution_detector
LoadModule ==
    /\ module_state = "unloaded"
    /\ module_state' = ImportModule(host).state
    /\ patched' = ImportModule(host).patched
    /\ UNCHANGED <<host, loaded_models, last_call, tracker_call>>
    /\ UNCHANGED <<normVars, resVars>>

\* the host calls comfy.utils.load_torch_file(path)
HostLoad(path, original) ==
    /\ host \in HostsWithLoader
    /\ Len(loaded_models) < MaxLoads
    /\ LET done == IF patched
                   THEN tracked_load_torch_file(loaded_models, path, original)
                   ELSE << loaded_models, original >>
       IN  /\ loaded_models' = done[1]
           /\ last_call' = [path |-> path, original |-> original, seen |-> done[2],
                            before |-> loaded_models, tracked |-> patched]
    /\ UNCHANGED <<host, module_state, patched, tracker_call>>
    /\ UNCHANGED <<normVars, resVars>>

\* WAN21ModelTracker.detect_resolution(model)
TrackerDetect(model) ==
    /\ module_state = "loaded"
    /\ tracker_call' = [model |-> model, cache |-> loaded_models,
                        out |-> Tracker_detect_resolution(loaded_models, model)]
    /\ UNCHANGED <<host, module_state, patched, loaded_models, last_call>>
    /\ UNCHANGED <<normVars, resVars>>

-----------------------------------------------------------------------------
(* Specifications.                                                         *)

NormIdle ==
    /\ image_name = PyNone
    /\ image = ImageNamed(Absent)
    /\ rfe_out = <<>>
    /\ rfe_again = <<>>
    /\ direct_out = <<>>
    /\ improved_out = <<>>

ResIdle ==
    /\ model_filename = PyNone
    /\ detect_out = <<>>

TrackIdle ==
    /\ host = "full"
    /\ module_state = "unloaded"
    /\ patched = FALSE
    /\ loaded_models = <<>>
    /\ last_call = NoCall
    /\ tracker_call = NoTrackerCall

\* the three filename nodes on one image name
InitNorm ==
    /\ image_name \in NormInputs
    /\ image = ImageNamed(image_name)
    /\ rfe_out = <<>>
    /\ rfe_again = <<>>
    /\ direct_out = <<>>
    /\ improved_out = <<>>
    /\ ResIdle
    /\ TrackIdle

NextNorm == ExtractFilename \/ ExtractAgain \/ GetFilename \/ ImprovedExtract

SpecNorm == InitNorm /\ [][NextNorm]_vars

\* the resolution detector on one model filename
InitRes ==
    /\ model_filename \in ResInputs
    /\ detect_out = <<>>
    /\ NormIdle
    /\ TrackIdle

NextRes == DetectResolution

SpecRes == InitRes /\ [][NextRes]_vars

\* the load interception and the model tracker
InitTrack ==
    /\ host \in Hosts
    /\ module_state = "unloaded"
    /\ patched = FALSE
    /\ loaded_models = <<>>
    /\ last_call = NoCall
    /\ tracker_call = NoTrackerCall
    /\ NormIdle
    /\ ResIdle

NextTrack ==
    \/ LoadModule
    \/ \E path \in Paths, original \in Originals : HostLoad(path, original)
    \/ \E model \in Models : TrackerDetect(model)

SpecTrack == InitTrack /\ [][NextTrack]_vars

\* filename discovery on an image object, beside the load interception
InitDisc ==
    /\ image \in Images
    /\ image_name = PyNone
    /\ rfe_out = <<>>
    /\ rfe_again = <<>>
    /\ direct_out = <<>>
    /\ improved_out = <<>>
    /\ ResIdle
    /\ TrackIdle

\* the loads seen beside discovery: a model file and a file that is none,
\* both loaded without error
DiscPaths ==
    { Str(<<"m", "/", "w", "4", "8", "0", "p", ".", "s", "a", "f", "e", "t", "e", "n",
            "s", "o", "r", "s">>),
      Str(<<"n", "o", "t", "e", "s", ".", "t", "x", "t">>) }

NextDisc ==
    \/ LoadModule
    \/ \E path \in DiscPaths : HostLoad(path, [kind |-> "return", value |-> "state_dict"])
    \/ ImprovedExtract

SpecDisc == InitDisc /\ [][NextDisc]_vars

-----------------------------------------------------------------------------
(* Properties of the filename nodes, checked under SpecNorm.               *)

Triple(out) == SubSeq(out, 1, 3)

EmptyTriple == << <<>>, <<>>, <<>> >>

IsBlank(name) ==
    name.t = "str" /\ \A i \in 1..Len(name.v) : name.v[i] \in Whitespace

\* what follows the last "/" of t
AfterLastSlash(t) ==
    LET k == CHOOSE k \in 0..Len(t) :
                 /\ k > 0 => t[k] = "/"
                 /\ \A j \in (k + 1)..Len(t) : t[j] # "/"
    IN  SubSeq(t, k + 1, Len(t))

\* the name ReliableFilenameExtractor works on: what follows the last "/" of the
\* input without its surrounding whitespace
LastSegment(s) == AfterLastSlash(Strip(s))

MarkerAt(name, i) ==
    /\ i >= 1
    /\ i + Len(Marker) - 1 <= Len(name)
    /\ \A k \in 1..Len(Marker) : name[i + k - 1] = Marker[k]

MarkerEnds(name) == MarkerAt(name, Len(name) - Len(Marker) + 1)

MarkerInside(name) ==
    ~MarkerEnds(name) /\ \E i \in 1..Len(name) : MarkerAt(name, i)

\* name without the positions from..to
Without(name, from, to) ==
    SubSeq(name, 1, from - 1) \o SubSeq(name, to + 1, Len(name))

\* name without its first occurrence of the marker
WithoutFirstMarker(name) ==
    LET i == CHOOSE i \in 1..Len(name) :
                 MarkerAt(name, i) /\ \A j \in 1..(i - 1) : ~MarkerAt(name, j)
    IN  Without(name, i, i + Len(Marker) - 1)

\* name without any position that lies in an occurrence of the marker
WithoutEveryMarker(name) ==
    LET covered(i) == \E j \in 1..i : MarkerAt(name, j) /\ i < j + Len(Marker)
        kept == SelectSeq([i \in 1..Len(name) |-> i], LAMBDA i : ~covered(i))
    IN  [k \in 1..Len(kept) |-> name[kept[k]]]

HasImageExt(name) ==
    \E ext \in ImageExts :
        /\ Len(ext) <= Len(name)
        /\ \A k \in 1..Len(ext) : name[Len(name) - Len(ext) + k] = ext[k]

\* the input is a name ReliableFilenameExtractor does not return early on
Nameable(name) == name.t = "str" /\ ~IsBlank(name)

(* C1: normalization is idempotent: extract_filename applied to the full     *)
(* filename it returned gives the same (full, stem, extension) again.        *)
C1_Idempotent ==
    rfe_again # <<>> => Triple(rfe_again) = Triple(rfe_out)

(* C2: directories are stripped first; a name that then ends with            *)
(* "-swapped.png" loses that marker and gets ".png" appended exactly when    *)
(* what is left does not end with a recognised image extension.              *)
C2_KnownSuffixRule ==
    (rfe_out # <<>> /\ Nameable(image_name)) =>
        LET name == LastSegment(image_name.v)
            cut == SubSeq(name, 1, Len(name) - Len(Marker))
        IN  /\ MarkerEnds(name) =>
                rfe_out[1] = IF HasImageExt(cut) THEN cut ELSE cut \o <<".", "p", "n", "g">>
            /\ image_name.v = PhotoSwapped =>
                Triple(rfe_out) = << <<"p", "h", "o", "t", "o", ".", "p", "n", "g">>,
                                     <<"p", "h", "o", "t", "o">>,
                                     <<".", "p", "n", "g">> >>
            /\ image_name.v = PathSwapped =>
                Triple(rfe_out) = << <<"c", ".", "p", "n", "g">>, <<"c">>,
                                     <<".", "p", "n", "g">> >>

\* the marker is cut from a name in a directory, and what is left already
\* carries an image extension
C2_Witness ==
    /\ rfe_out # <<>>
    /\ Nameable(image_name)
    /\ \E i \in 1..Len(image_name.v) : image_name.v[i] = "/"
    /\ MarkerEnds(LastSegment(image_name.v))
    /\ HasImageExt(rfe_out[1])
    /\ Len(rfe_out[1]) + Len(Marker) = Len(LastSegment(image_name.v))

(* C3 as stated: a name that contains "-swapped.png" without ending with it  *)
(* loses the first occurrence only; later occurrences are kept.              *)
C3_FirstOccurrenceOnly ==
    /\ (rfe_out # <<>> /\ Nameable(image_name)
            /\ MarkerInside(LastSegment(image_name.v))) =>
        rfe_out[1] = WithoutFirstMarker(LastSegment(image_name.v))
    /\ (direct_out # <<>> /\ Truthy(image_name) /\ MarkerInside(image_name.v)) =>
        direct_out[1] = WithoutFirstMarker(image_name.v)

(* C3 as amended: a name that contains "-swapped.png" without ending with it *)
(* loses every occurrence of it, and every other character is kept, in       *)
(* extract_filename and in get_filename alike.                               *)
C3_EveryOccurrence ==
    /\ (rfe_out # <<>> /\ Nameable(image_name)
            /\ MarkerInside(LastSegment(image_name.v))) =>
        rfe_out[1] = WithoutEveryMarker(LastSegment(image_name.v))
    /\ (direct_out # <<>> /\ Truthy(image_name) /\ MarkerInside(image_name.v)) =>
        direct_out[1] = WithoutEveryMarker(image_name.v)
    /\ (rfe_out # <<>> /\ direct_out # <<>> /\ image_name = Str(PhotoSwappedJpg)) =>
        /\ Triple(rfe_out) = << <<"p", "h", "o", "t", "o", ".", "j", "p", "g">>,
                                <<"p", "h", "o", "t", "o">>, <<".", "j", "p", "g">> >>
        /\ direct_out = Triple(rfe_out)

\* both nodes ran on a name that holds the marker twice and does not end with it
C3_Witness ==
    /\ rfe_out # <<>>
    /\ direct_out # <<>>
    /\ Nameable(image_name)
    /\ MarkerInside(image_name.v)
    /\ MarkerInside(LastSegment(image_name.v))
    /\ \E i, j \in 1..Len(LastSegment(image_name.v)) :
           i < j /\ MarkerAt(LastSegment(image_name.v), i)
                 /\ MarkerAt(LastSegment(image_name.v), j)

\* the last "." of name, 0 without one
LastDot(name) ==
    IF \E i \in 1..Len(name) : name[i] = "."
    THEN CHOOSE i \in 1..Len(name) :
             name[i] = "." /\ \A j \in (i + 1)..Len(name) : name[j] # "."
    ELSE 0

SplitOnLastDot(out) ==
    IF LastDot(out[1]) > 0
    THEN /\ out[2] = SubSeq(out[1], 1, LastDot(out[1]) - 1)
         /\ out[3] = SubSeq(out[1], LastDot(out[1]), Len(out[1]))
    ELSE /\ out[2] = out[1]
         /\ out[3] = <<>>

(* C4: the cleaned name is split on its last ".": the extension runs from    *)
(* that dot to the end, the stem is what precedes it, also when the only     *)
(* "." is the first character; the extension is empty only without a ".".    *)
C4_SplitOnLastDot ==
    /\ (rfe_out # <<>> /\ Nameable(image_name)) => SplitOnLastDot(rfe_out)
    /\ (direct_out # <<>> /\ Truthy(image_name)) => SplitOnLastDot(direct_out)

(* C5: an input that is empty or only whitespace gives ("", "", "") from     *)
(* extract_filename and from get_filename.                                   *)
C5_BlankGivesEmpty ==
    IsBlank(image_name) =>
        /\ rfe_out # <<>> => Triple(rfe_out) = EmptyTriple
        /\ direct_out # <<>> => direct_out = EmptyTriple

(* C10: on a non-empty name without a directory the three nodes agree:       *)
(* extract_filename and get_filename return the same triple, and the         *)
(* improved extractor, given the name as the filename attribute, the same    *)
(* full filename.                                                            *)
C10_DuplicatesAgree ==
    (/\ image_name.t = "str"
     /\ image_name.v # <<>>
     /\ \A i \in 1..Len(image_name.v) : image_name.v[i] # "/") =>
        /\ (rfe_out # <<>> /\ direct_out # <<>>) => direct_out = Triple(rfe_out)
        /\ (rfe_out # <<>> /\ improved_out # <<>>) => improved_out[1] = rfe_out[1]

-----------------------------------------------------------------------------
(* Properties of the resolution detector, checked under SpecRes.           *)

Res480 == <<"4", "8", "0", "p">>
Res720 == <<"7", "2", "0", "p">>

\* tag occurs in s at position i, whatever the case of its letter
ResAt(s, i, tag) ==
    /\ i >= 1
    /\ i + 3 <= Len(s)
    /\ s[i] = tag[1]
    /\ s[i + 1] = tag[2]
    /\ s[i + 2] = tag[3]
    /\ s[i + 3] \in {"p", "P"}

\* tag is the leftmost resolution marker of s
Leftmost(s, tag) ==
    \E i \in 1..Len(s) :
        /\ ResAt(s, i, tag)
        /\ \A j \in 1..(i - 1) : ~ResAt(s, j, Res480) /\ ~ResAt(s, j, Res720)

\* the resolution a filename carries: its leftmost marker in lower case, or ""
ResolutionOf(s) ==
    IF Leftmost(s, Res480) THEN Res480
    ELSE IF Leftmost(s, Res720) THEN Res720
    ELSE <<>>

(* C6: detect_resolution returns the lower-cased leftmost occurrence of      *)
(* "480p" or "720p", whatever its case, position alone deciding between the  *)
(* two, and "" for a filename without a marker, an empty one, or the         *)
(* sentinel "No models found".                                               *)
C6_LeftmostResolution ==
    detect_out # <<>> =>
        /\ Len(detect_out) = 1
        /\ detect_out[1] =
               IF model_filename.t # "str" \/ model_filename.v = NoModelsFound
               THEN <<>>
               ELSE ResolutionOf(model_filename.v)

\* a filename with both markers, "720P" in upper case before "480p"
C6_Witness ==
    /\ detect_out = << Res720 >>
    /\ model_filename.t = "str"
    /\ \E i, j \in 1..Len(model_filename.v) :
           /\ i < j
           /\ ResAt(model_filename.v, i, Res720)
           /\ model_filename.v[i + 3] = "P"
           /\ ResAt(model_filename.v, j, Res480)

-----------------------------------------------------------------------------
(* Properties of filename discovery, checked under SpecDisc.               *)

\* what each probe yields as a string, "" when it yields nothing
ProbeFilename(img) ==
    IF img.filename.t = "str" THEN img.filename.v ELSE <<>>

ProbeNames(img) ==
    CASE img.names.t = "list" /\ img.names.v # <<>> ->
             IF img.names.v[1].t = "none" THEN <<"N", "o", "n", "e">>
             ELSE img.names.v[1].v
      [] img.names.t = "str" -> img.names.v
      [] OTHER -> <<>>

ProbeMetadata(img) ==
    IF img.metadata.t = "dict" /\ img.metadata.v # <<>>
    THEN IF img.metadata.v[1].t = "none" THEN <<"N", "o", "n", "e">>
         ELSE img.metadata.v[1].v
    ELSE <<>>

\* the filename most recently put into the cache, "" when the cache is empty
CacheLatest ==
    IF loaded_models = <<>> THEN <<>> ELSE loaded_models[Len(loaded_models)][2]

FirstNonEmpty(candidates) ==
    IF \E i \in 1..Len(candidates) : candidates[i] # <<>>
    THEN candidates[CHOOSE i \in 1..Len(candidates) :
                        candidates[i] # <<>> /\ \A j \in 1..(i - 1) : candidates[j] = <<>>]
    ELSE <<>>

(* C7 as stated: discovery tries (a) the filename property, (b) the first    *)
(* of names, (c) metadata's filename, (d) the last-known-filename cache, in  *)
(* that order; the first that yields a non-empty string gives the result,    *)
(* and the result is the sentinel only when all four fail.                   *)
C7_FourStrategies ==
    [][improved_out' # improved_out =>
         LET found == FirstNonEmpty(<< ProbeFilename(image), ProbeNames(image),
                                       ProbeMetadata(image), CacheLatest >>)
         IN  improved_out'[1] =
                 IF found \in { <<>>, <<"N", "o", "n", "e">>, <<"n", "o", "n", "e">> }
                 THEN NoFilenameFound
                 ELSE Improved_HandleSwapped(Basename(found))]_vars

(* C7 as amended: discovery tries (a) the filename property, (b) the first   *)
(* of names (names itself when it is no list), (c) metadata's filename, in   *)
(* that order, and never the cache; the first that yields a non-empty string *)
(* is the discovered name and no later one overrides it; the result is the   *)
(* sentinel "no_filename_found" when nothing was discovered or the           *)
(* discovered name is "None" or "none", and the cleaned name otherwise.      *)
C7_ThreeStrategies ==
    improved_out # <<>> =>
        LET found == FirstNonEmpty(<< ProbeFilename(image), ProbeNames(image),
                                      ProbeMetadata(image) >>)
        IN  improved_out[1] =
                IF found \in { <<>>, <<"N", "o", "n", "e">>, <<"n", "o", "n", "e">> }
                THEN NoFilenameFound
                ELSE Improved_HandleSwapped(Basename(found))

\* all three probes yield a name and the cache holds one: the filename
\* property's is returned
C7_Witness ==
    /\ improved_out # <<>>
    /\ ProbeFilename(image) \notin { <<>>, <<"N", "o", "n", "e">> }
    /\ ProbeNames(image) \notin { <<>>, <<"N", "o", "n", "e">> }
    /\ ProbeMetadata(image) \notin { <<>>, <<"N", "o", "n", "e">> }
    /\ CacheLatest # <<>>
    /\ improved_out[1] = Improved_HandleSwapped(Basename(ProbeFilename(image)))
    /\ improved_out[1] # Improved_HandleSwapped(Basename(ProbeNames(image)))

-----------------------------------------------------------------------------
(* Properties of the load interception, checked under SpecTrack.           *)

\* the last call went through tracked_load_torch_file and returned
TrackedReturn == last_call.tracked /\ last_call.original.kind = "return"

\* the path of the last call is a str with a model extension somewhere in it
NamesModel(path) ==
    /\ path.t = "str"
    /\ \E ext \in ModelExts : \E i \in 1..Len(path.v) :
           /\ i + Len(ext) - 1 <= Len(path.v)
           /\ \A k \in 1..Len(ext) : LowerChar(path.v[i + k - 1]) = ext[k]

\* the filenames the cache holds, oldest first
CacheFiles(d) == [i \in 1..Len(d) |-> d[i][2]]

(* C8 as stated: the cache is a single slot: after a load of a model file    *)
(* was observed it holds the filename of that load and nothing else, and     *)
(* the fallback lookup reads that filename.                                  *)
C8_SingleSlot ==
    /\ (TrackedReturn /\ NamesModel(last_call.path)) =>
           CacheFiles(loaded_models) = << AfterLastSlash(last_call.path.v) >>
    /\ (tracker_call.out # <<>> /\ tracker_call.cache # <<>>
            /\ ResolutionOf(tracker_call.cache[Len(tracker_call.cache)][2]) # <<>>) =>
           tracker_call.out
               = << ResolutionOf(tracker_call.cache[Len(tracker_call.cache)][2]) >>

(* C8 as amended: the cache is append-only: every observed load of a model   *)
(* file that returns adds its filename under a new key, after the entries    *)
(* already there, which all stay; the fallback lookup reads the filename     *)
(* added last and no earlier one.                                            *)
C8_AppendOnlyLatestRead ==
    /\ (TrackedReturn /\ NamesModel(last_call.path)) =>
           /\ Len(loaded_models) = Len(last_call.before) + 1
           /\ SubSeq(loaded_models, 1, Len(last_call.before)) = last_call.before
           /\ loaded_models[Len(loaded_models)][2] = AfterLastSlash(last_call.path.v)
           /\ \A i \in 1..Len(last_call.before) :
                  last_call.before[i][1] # loaded_models[Len(loaded_models)][1]
    /\ (tracker_call.out # <<>> /\ tracker_call.cache # <<>>) =>
           LET latest == tracker_call.cache[Len(tracker_call.cache)][2]
           IN  IF ResolutionOf(latest) # <<>>
               THEN tracker_call.out = << ResolutionOf(latest) >>
               ELSE \/ tracker_call.out = << <<>> >>
                    \/ \E i \in 1..Len(tracker_call.model.attrs) :
                           /\ tracker_call.model.attrs[i].t = "str"
                           /\ tracker_call.out
                                  = << ResolutionOf(tracker_call.model.attrs[i].v) >>

\* two loads were tracked, the older with "480p" and the newer with "720P" in
\* the name, and the lookup returned the newer one's resolution
C8_Witness ==
    /\ Len(loaded_models) >= 2
    /\ tracker_call.cache = loaded_models
    /\ ResolutionOf(loaded_models[1][2]) = Res480
    /\ ResolutionOf(loaded_models[Len(loaded_models)][2]) = Res720
    /\ tracker_call.out = << Res720 >>

====
